---- MODULE Spec2Model ----
(***************************************************************************)
(* rteval_parserd: the submission-queue poller, the POSIX message queue    *)
(* it feeds, the parse threads that drain it, the signal handler and the   *)
(* startup / teardown of main(), as a state machine.                       *)
(*                                                                         *)
(* Source: src/server/parser/rteval_parserd.c.  parsethread(),             *)
(* db_get_submissionqueue_job() and db_wait_notification() are declared in *)
(* headers of the repository whose implementation is not part of src/;     *)
(* they are modelled from the interface section of the specification.      *)
(***************************************************************************)
EXTENDS Integers, Sequences, FiniteSets, TLC

\* Number of parse threads (the source fixes 5 at line 187; the model runs fewer).
max_threads == 2
\* mq_maxmsg of the queue, the value get_mqueue_msg_max() returned.
msg_max == 1
\* Number of rows the external producer inserts into the submission queue.
MaxJobs == 3
\* Number of SIGINT / SIGTERM deliveries in one run.
MaxSignals == 2
\* Processing failures in one run.
MaxFailures == 1

Threads == 0 .. (max_threads - 1)
Jobs    == 1 .. MaxJobs
Signals == {"SIGINT", "SIGTERM"}

VARIABLES
    shutdown,      \* the global shutdown flag (line 44)
    mainPc,        \* position of main()
    i,             \* main()'s loop index
    rc,            \* main()'s rc
    msgq,          \* the message queue descriptor of main()
    unlinked,      \* mq_unlink("/rteval_parsequeue") has run
    dbc,           \* main thread's database connection
    threads,       \* the pthread_t* array ("noarray" in each slot: a NULL array)
    thread_attrs,  \* the pthread_attr_t* array
    thrdata,       \* the threadData_t* array ("uninit" in each slot: the pointer
                   \* itself is indeterminate, it has no initialiser at line 184)
    pollPc,        \* position of process_submission_queue()
    job,           \* the parseJob_t the poller holds (0: none)
    res,           \* result of the last mq_send
    errno,         \* errno of the main thread
    prc,           \* rc of process_submission_queue()
    chan,          \* contents of the message queue, oldest first
    avail,         \* eligible rows of the submission queue table
    nclaimed,      \* rows claimed so far (the next submid is nclaimed + 1)
    notif,         \* a NOTIFY rteval_submq is pending for the poller
    wPc,           \* position of each parse thread
    wJob,          \* the job a parse thread is processing (0: none)
    failedJobs,    \* jobs whose processing failed in a parse thread
    hPc,           \* position of each signal's handler
    hMain,         \* handlers running on the main thread, innermost first
    sigCount,      \* signals delivered so far
    startLines,    \* "Starting shutting down" lines written
    progLines,     \* "Shutdown in progress" lines written
    sentCount,     \* per job: successful mq_send calls
    recvCount,     \* per job: receptions by a parse thread
    released,      \* jobs the poller freed at line 161
    joined,        \* threads whose pthread_join returned 0
    joinFailed,    \* threads whose pthread_join returned an error
    disconnected,  \* threads whose connection and context main() released
    sigInstalled,  \* signal(SIGINT/SIGTERM, sigcatch) has run
    startFailed,   \* threads whose pthread_create returned an error number
    pollFailed,    \* the operation that failed in the poller ("none": no failure)
    flagWriters    \* who has written the shutdown flag

mainVars   == <<mainPc, i, rc, msgq, unlinked, dbc, threads, thread_attrs, thrdata>>
pollVars   == <<pollPc, job, res, errno, prc>>
dbVars     == <<avail, nclaimed, notif>>
workVars   == <<wPc, wJob, failedJobs>>
sigVars    == <<hPc, hMain, sigCount, startLines, progLines, sigInstalled>>
histVars   == <<sentCount, recvCount, released, joined, joinFailed, disconnected,
               startFailed, pollFailed>>

vars == <<shutdown, mainVars, pollVars, chan, dbVars, workVars, sigVars, histVars,
          flagWriters>>

(***************************************************************************)
(* Helpers                                                                 *)
(***************************************************************************)

\* threads && threads[i]  (line 302)
HasThread(k) == threads[k] \notin {"noarray", "NULL"}

\* A parse thread that was created and has not returned.
Alive(k) == wPc[k] \in {"loop", "recv", "process"}

\* The main thread is not inside a signal handler.
MainRuns == hMain = <<>>

\* An array pointer that is NULL.
NoArray == [k \in Threads |-> "noarray"]

\* thrdata was never assigned.
ThrdataUninit == \E k \in Threads : thrdata[k] = "uninit"

\* The process is still there.
Running == mainPc \notin {"done", "crashed"}

\* A goto exit that lands behind the loop of lines 300-320.
GotoExit_SkipLoop(code) ==
    /\ rc' = code
    /\ mainPc' = "free"
    /\ i' = 0

\* goto exit (line 298) with the given rc.
GotoExit(code) ==
    /\ rc' = code
    /\ mainPc' = "join"
    /\ i' = 0

Init ==
    /\ shutdown = 0
    /\ mainPc = "xslt"
    /\ i = 0
    /\ rc = -1
    /\ msgq = "uninit"
    /\ unlinked = FALSE
    /\ dbc = "NULL"
    /\ threads = NoArray
    /\ thread_attrs = NoArray
    /\ thrdata = [k \in Threads |-> "uninit"]
    /\ pollPc = "notstarted"
    /\ job = 0
    /\ res = 0
    /\ errno = "0"
    /\ prc = 0
    /\ chan = <<>>
    /\ avail = 0
    /\ nclaimed = 0
    /\ notif = FALSE
    /\ wPc = [k \in Threads |-> "unstarted"]
    /\ wJob = [k \in Threads |-> 0]
    /\ hPc = [s \in Signals |-> "idle"]
    /\ hMain = <<>>
    /\ sigCount = 0
    /\ startLines = 0
    /\ progLines = 0
    /\ sigInstalled = FALSE
    /\ sentCount = [j \in Jobs |-> 0]
    /\ recvCount = [j \in Jobs |-> 0]
    /\ released = {}
    /\ joined = {}
    /\ joinFailed = {}
    /\ failedJobs = {}
    /\ disconnected = {}
    /\ startFailed = {}
    /\ pollFailed = "none"
    /\ flagWriters = {}

(***************************************************************************)
(* main(): startup                                                         *)
(***************************************************************************)

\* Lines 196-203: parse the XSLT template.
ParseXslt ==
    /\ mainPc = "xslt"
    /\ \E ok \in BOOLEAN :
          IF ok THEN /\ mainPc' = "mq_open"
                     /\ UNCHANGED <<rc, i>>
                ELSE GotoExit(2)
    /\ UNCHANGED <<shutdown, msgq, unlinked, dbc, threads, thread_attrs, thrdata,
                   pollVars, chan, dbVars, workVars, sigVars, histVars, flagWriters>>

\* Lines 205-215: open the POSIX message queue.
OpenMQ ==
    /\ mainPc = "mq_open"
    /\ \E ok \in BOOLEAN :
          IF ok THEN /\ msgq' = "open"
                     /\ mainPc' = "db_connect"
                     /\ UNCHANGED <<rc, i>>
                ELSE /\ msgq' = "failed"
                     /\ GotoExit(2)
    /\ UNCHANGED <<shutdown, unlinked, dbc, threads, thread_attrs, thrdata,
                   pollVars, chan, dbVars, workVars, sigVars, histVars, flagWriters>>

\* Lines 217-222: the main thread's database connection.
ConnectMain ==
    /\ mainPc = "db_connect"
    /\ \E ok \in BOOLEAN :
          IF ok THEN /\ dbc' = "conn"
                     /\ mainPc' = "calloc"
                     /\ UNCHANGED <<rc, i>>
                ELSE /\ dbc' = "NULL"
                     /\ GotoExit(2)
    /\ UNCHANGED <<shutdown, msgq, unlinked, threads, thread_attrs, thrdata,
                   pollVars, chan, dbVars, workVars, sigVars, histVars, flagWriters>>

\* Lines 224-230: the three arrays; the assert aborts when a calloc fails.
AllocArrays ==
    /\ mainPc = "calloc"
    /\ \E ok \in BOOLEAN :
          IF ok THEN /\ threads' = [k \in Threads |-> "NULL"]
                     /\ thread_attrs' = [k \in Threads |-> "NULL"]
                     /\ thrdata' = [k \in Threads |-> "NULL"]
                     /\ mainPc' = "prepare"
                     /\ i' = 0
                ELSE /\ mainPc' = "crashed"
                     /\ UNCHANGED <<threads, thread_attrs, thrdata, i>>
    /\ UNCHANGED <<shutdown, rc, msgq, unlinked, dbc,
                   pollVars, chan, dbVars, workVars, sigVars, histVars, flagWriters>>

\* What can happen in one round of the loop of lines 231-272.
PrepareOutcomes == {"ok", "no_thrdata", "no_dbc", "no_attr", "no_pthread_t"}

\* Lines 231-272: one round of the loop preparing thread i.
PrepareThread ==
    /\ mainPc = "prepare"
    /\ \E o \in PrepareOutcomes :
          /\ thrdata' = [thrdata EXCEPT ![i] =
                           CASE o = "no_thrdata" -> "NULL"
                             [] o = "no_dbc"     -> "nodbc"
                             [] OTHER            -> "conn"]
          /\ thread_attrs' = [thread_attrs EXCEPT ![i] =
                           IF o \in {"ok", "no_pthread_t"} THEN "init" ELSE "NULL"]
          /\ threads' = [threads EXCEPT ![i] = IF o = "ok" THEN "indet" ELSE "NULL"]
          /\ IF o = "ok"
                THEN /\ i' = i + 1
                     /\ mainPc' = IF i + 1 < max_threads THEN "prepare" ELSE "signal"
                     /\ UNCHANGED rc
                ELSE GotoExit(2)
          /\ IF o = "no_dbc"
                THEN /\ shutdown' = 1
                     /\ flagWriters' = flagWriters \cup {"main"}
                ELSE UNCHANGED <<shutdown, flagWriters>>
    /\ UNCHANGED <<msgq, unlinked, dbc, pollVars, chan, dbVars, workVars, sigVars,
                   histVars>>

\* Lines 274-276: install sigcatch for SIGINT and SIGTERM.
SetupSignals ==
    /\ mainPc = "signal"
    /\ sigInstalled' = TRUE
    /\ mainPc' = "start"
    /\ i' = 0
    /\ UNCHANGED <<shutdown, rc, msgq, unlinked, dbc, threads, thread_attrs, thrdata,
                   pollVars, chan, dbVars, workVars, hPc, hMain, sigCount, startLines,
                   progLines, histVars, flagWriters>>

\* pthread_create returns 0, or an error number, which is positive (EAGAIN is 11).
PthreadCreateResults == {0, 11}

\* Lines 278-287: one round of the loop starting thread i.
StartThread ==
    /\ mainPc = "start"
    /\ MainRuns
    /\ \E thr_rc \in PthreadCreateResults :
          /\ IF thr_rc = 0
                THEN /\ wPc' = [wPc EXCEPT ![i] = "loop"]
                     /\ threads' = [threads EXCEPT ![i] = "valid"]
                     /\ UNCHANGED startFailed
                ELSE /\ startFailed' = startFailed \cup {i}
                     /\ UNCHANGED <<wPc, threads>>
          /\ IF thr_rc < 0
                THEN GotoExit(3)
                ELSE /\ i' = i + 1
                     /\ mainPc' = IF i + 1 < max_threads THEN "start" ELSE "call"
                     /\ UNCHANGED rc
    /\ UNCHANGED <<shutdown, msgq, unlinked, dbc, thread_attrs, thrdata,
                   pollVars, chan, dbVars, wJob, failedJobs, sigVars, sentCount,
                   recvCount, released,
                   joined, joinFailed, disconnected, pollFailed, flagWriters>>

\* Lines 289-295: call process_submission_queue(dbc, msgq).
CallPoller ==
    /\ mainPc = "call"
    /\ MainRuns
    /\ mainPc' = "polling"
    /\ pollPc' = "loop"
    /\ UNCHANGED <<shutdown, i, rc, msgq, unlinked, dbc, threads, thread_attrs, thrdata,
                   job, res, errno, prc, chan, dbVars, workVars, sigVars, histVars,
                   flagWriters>>

(***************************************************************************)
(* process_submission_queue()                                              *)
(***************************************************************************)

\* Line 122 and lines 163-164: the loop condition, and the return when it is false.
PollLoop ==
    /\ pollPc = "loop"
    /\ MainRuns
    /\ pollPc' = IF shutdown = 0 THEN "claim" ELSE "returned"
    /\ UNCHANGED <<shutdown, mainVars, job, res, errno, prc, chan, dbVars, workVars,
                   sigVars, histVars, flagWriters>>

\* db_get_submissionqueue_job(): NULL when the claim could not be made, a job of
\* status jbNONE when no row is eligible, the claimed row otherwise.
ClaimResults == {"NULL"} \cup (IF avail > 0 THEN {"claimed"} ELSE {"jbNONE"})

\* Lines 124-131 and 143: claim the next job.
PollClaim ==
    /\ pollPc = "claim"
    /\ MainRuns
    /\ \E r \in ClaimResults :
          CASE r = "NULL" ->
                 /\ shutdown' = 1
                 /\ flagWriters' = flagWriters \cup {"poller"}
                 /\ prc' = 1
                 /\ pollPc' = "returned"
                 /\ pollFailed' = "claim"
                 /\ UNCHANGED <<job, avail, nclaimed>>
            [] r = "jbNONE" ->
                 /\ pollPc' = "listen"
                 /\ UNCHANGED <<shutdown, flagWriters, prc, job, avail, nclaimed,
                                pollFailed>>
            [] r = "claimed" ->
                 /\ job' = nclaimed + 1
                 /\ nclaimed' = nclaimed + 1
                 /\ avail' = avail - 1
                 /\ pollPc' = "send"
                 /\ UNCHANGED <<shutdown, flagWriters, prc, pollFailed>>
    /\ UNCHANGED <<mainVars, res, errno, chan, notif, workVars, sigVars, sentCount,
                   recvCount, released, joined, joinFailed, disconnected, startFailed>>

\* Line 133, entering db_wait_notification(): the connection subscribes to the
\* channel named in the call, and is subscribed until the call returns.
PollListen ==
    /\ pollPc = "listen"
    /\ MainRuns
    /\ pollPc' = "wait"
    /\ UNCHANGED <<shutdown, mainVars, job, res, errno, prc, chan, dbVars, workVars,
                   sigVars, histVars, flagWriters>>

\* db_wait_notification(dbc, &shutdown, "rteval_submq"): the number of notifications
\* received, which is 0 when the flag ended the wait before any arrived, or a
\* negative value on failure.
WaitResults ==
    {-1} \cup (IF notif THEN {1} ELSE IF shutdown # 0 THEN {0} ELSE {})

\* Lines 132-140: no eligible job, wait for a notification.
PollWait ==
    /\ pollPc = "wait"
    /\ MainRuns
    /\ \E ret \in WaitResults :
          /\ notif' = IF ret >= 1 THEN FALSE ELSE notif
          /\ pollFailed' = IF ret < 0 THEN "wait" ELSE pollFailed
          /\ IF ret < 1
                THEN /\ shutdown' = 1
                     /\ flagWriters' = flagWriters \cup {"poller"}
                     /\ prc' = 1
                     /\ pollPc' = "returned"
                ELSE /\ pollPc' = "loop"
                     /\ UNCHANGED <<shutdown, flagWriters, prc>>
    /\ UNCHANGED <<mainVars, job, res, errno, chan, avail, nclaimed, workVars, sigVars,
                   sentCount, recvCount, released, joined, joinFailed, disconnected,
                   startFailed>>

\* An mq_send() that accepts one message more than mq_maxmsg.
MqSendResults_OffByOne ==
    {"EBADF"} \cup (IF Len(chan) <= msg_max THEN {"0"} ELSE {"EAGAIN"})

\* mq_send() on the O_NONBLOCK queue: queued, EAGAIN when the queue holds
\* mq_maxmsg messages, or another error.
MqSendResults == {"EBADF"} \cup (IF Len(chan) < msg_max THEN {"0"} ELSE {"EAGAIN"})

\* Lines 147-154, and lines 160-161 when the send succeeded.
PollSend ==
    /\ pollPc = "send"
    /\ MainRuns
    /\ \E e \in MqSendResults :
          /\ errno' = e
          /\ res' = IF e = "0" THEN 0 ELSE -1
          /\ pollFailed' = IF e \in {"0", "EAGAIN"} THEN pollFailed ELSE "send"
          /\ IF e = "0"
                THEN /\ chan' = Append(chan, job)
                     /\ sentCount' = [sentCount EXCEPT ![job] = @ + 1]
                ELSE UNCHANGED <<chan, sentCount>>
          /\ IF res' < 0 /\ errno' # "EAGAIN"
                THEN /\ shutdown' = 1
                     /\ flagWriters' = flagWriters \cup {"poller"}
                     /\ prc' = 2
                     /\ pollPc' = "returned"
                     /\ UNCHANGED <<job, released>>
                ELSE IF errno' = "EAGAIN"
                        THEN /\ pollPc' = "cooldown"
                             /\ UNCHANGED <<shutdown, flagWriters, prc, job, released>>
                        ELSE /\ released' = released \cup {job}
                             /\ job' = 0
                             /\ pollPc' = "loop"
                             /\ UNCHANGED <<shutdown, flagWriters, prc>>
    /\ UNCHANGED <<mainVars, dbVars, workVars, sigVars, recvCount, joined, joinFailed,
                   disconnected, startFailed>>

\* errno after the warning is written and sleep(60) has run its full time: kept,
\* or the error of a failed write to stderr.
CooldownErrno == {errno, "EIO"}

\* Lines 155-158: the warning and the 60 seconds of sleep.
PollCooldown ==
    /\ pollPc = "cooldown"
    /\ MainRuns
    /\ \E e \in CooldownErrno : errno' = e
    /\ pollPc' = "retry"
    /\ UNCHANGED <<shutdown, mainVars, job, res, prc, chan, dbVars, workVars, sigVars,
                   histVars, flagWriters>>

\* Lines 160-161: the condition of the do-while, and the free when it is false.
PollRetry ==
    /\ pollPc = "retry"
    /\ MainRuns
    /\ IF errno = "EAGAIN"
          THEN /\ pollPc' = "send"
               /\ UNCHANGED <<job, released>>
          ELSE /\ released' = released \cup {job}
               /\ job' = 0
               /\ pollPc' = "loop"
    /\ UNCHANGED <<shutdown, mainVars, res, errno, prc, chan, dbVars, workVars, sigVars,
                   sentCount, recvCount, joined, joinFailed, disconnected, startFailed,
                   pollFailed, flagWriters>>

\* Lines 295-298: process_submission_queue() has returned.
PollerReturned ==
    /\ mainPc = "polling"
    /\ pollPc = "returned"
    /\ MainRuns
    /\ GotoExit(prc)
    /\ UNCHANGED <<shutdown, msgq, unlinked, dbc, threads, thread_attrs, thrdata,
                   pollVars, chan, dbVars, workVars, sigVars, histVars, flagWriters>>

(***************************************************************************)
(* The external producer                                                   *)
(***************************************************************************)

\* A client inserts a row into the submission queue; the insert notifies
\* rteval_submq, which reaches the connections subscribed at that moment.
InsertJob ==
    /\ Running
    /\ nclaimed + avail < MaxJobs
    /\ avail' = avail + 1
    /\ notif' = IF pollPc = "wait" THEN TRUE ELSE notif
    /\ UNCHANGED <<shutdown, mainVars, pollVars, chan, nclaimed, workVars, sigVars,
                   histVars, flagWriters>>

(***************************************************************************)
(* parsethread()                                                           *)
(***************************************************************************)

\* The loop condition of the parse thread: leave when the flag is set.
WorkerLoop(k) ==
    /\ Running
    /\ wPc[k] = "loop"
    /\ wPc' = [wPc EXCEPT ![k] = IF shutdown # 0 THEN "exited" ELSE "recv"]
    /\ UNCHANGED <<shutdown, mainVars, pollVars, chan, dbVars, wJob, failedJobs, sigVars,
                   histVars,
                   flagWriters>>

\* The receive with a bounded wait: the oldest job, or a timeout on an empty queue.
WorkerRecv(k) ==
    /\ Running
    /\ wPc[k] = "recv"
    /\ IF chan # <<>>
          THEN /\ wJob' = [wJob EXCEPT ![k] = Head(chan)]
               /\ chan' = Tail(chan)
               /\ recvCount' = [recvCount EXCEPT ![Head(chan)] = @ + 1]
               /\ wPc' = [wPc EXCEPT ![k] = "process"]
          ELSE /\ wPc' = [wPc EXCEPT ![k] = "loop"]
               /\ UNCHANGED <<wJob, chan, recvCount>>
    /\ UNCHANGED <<shutdown, mainVars, pollVars, dbVars, failedJobs, sigVars, sentCount,
                   released, joined, joinFailed, disconnected, startFailed, pollFailed,
                   flagWriters>>

\* The results of the processing routine for one job.
ProcessResults ==
    {"ok"} \cup (IF Cardinality(failedJobs) < MaxFailures THEN {"error"} ELSE {})

\* A parse thread that returns when the processing routine fails.
WorkerProcess_ExitOnError(k) ==
    /\ Running
    /\ wPc[k] = "process"
    /\ \E r \in ProcessResults :
          /\ failedJobs' = IF r = "error" THEN failedJobs \cup {wJob[k]} ELSE failedJobs
          /\ wPc' = [wPc EXCEPT ![k] = IF r = "error" THEN "exited" ELSE "loop"]
    /\ wJob' = [wJob EXCEPT ![k] = 0]
    /\ UNCHANGED <<shutdown, mainVars, pollVars, chan, dbVars, sigVars, histVars,
                   flagWriters>>

\* The processing routine returns, with success or with an error that is logged;
\* the thread goes back to its loop either way.
WorkerProcess(k) ==
    /\ Running
    /\ wPc[k] = "process"
    /\ \E r \in ProcessResults :
          failedJobs' = IF r = "error" THEN failedJobs \cup {wJob[k]} ELSE failedJobs
    /\ wPc' = [wPc EXCEPT ![k] = "loop"]
    /\ wJob' = [wJob EXCEPT ![k] = 0]
    /\ UNCHANGED <<shutdown, mainVars, pollVars, chan, dbVars, sigVars, histVars,
                   flagWriters>>

(***************************************************************************)
(* sigcatch()                                                              *)
(***************************************************************************)

\* The handler of signal s runs on the main thread.
OnMain(s) == \E n \in 1 .. Len(hMain) : hMain[n] = s

\* errno of the main thread when a signal ends sleep(60) early: kept, or the
\* EINTR of the interrupted nanosleep.
InterruptedErrno == {errno, "EINTR"}

\* A SIGINT or SIGTERM is delivered, to the main thread or to a live parse thread,
\* and sigcatch() reads the flag (line 54).  A delivery to the main thread during
\* the cooldown arrives before sleep(60) or ends it early.
SigDeliver(s) ==
    /\ sigInstalled
    /\ Running
    /\ sigCount < MaxSignals
    /\ hPc[s] = "idle"
    /\ sigCount' = sigCount + 1
    /\ hPc' = [hPc EXCEPT ![s] = IF shutdown = 0 THEN "then" ELSE "else"]
    /\ \E onMain \in BOOLEAN :
          /\ onMain \/ \E k \in Threads : Alive(k)
          /\ hMain' = IF onMain THEN <<s>> \o hMain ELSE hMain
          /\ IF onMain /\ pollPc = "cooldown"
                THEN \E early \in BOOLEAN :
                        IF early
                           THEN /\ pollPc' = "retry"
                                /\ \E e \in InterruptedErrno : errno' = e
                           ELSE UNCHANGED <<pollPc, errno>>
                ELSE UNCHANGED <<pollPc, errno>>
    /\ UNCHANGED <<shutdown, mainVars, job, res, prc, chan, dbVars, workVars,
                   startLines, progLines, sigInstalled, histVars, flagWriters>>

\* A handler whose else branch writes the flag as well, back to 0.
SigReturn_Toggle(s) ==
    /\ Running
    /\ hPc[s] # "idle"
    /\ OnMain(s) => Head(hMain) = s
    /\ IF hPc[s] = "then"
          THEN /\ shutdown' = 1
               /\ startLines' = startLines + 1
               /\ UNCHANGED progLines
          ELSE /\ shutdown' = 0
               /\ progLines' = progLines + 1
               /\ UNCHANGED startLines
    /\ flagWriters' = flagWriters \cup {"sigcatch"}
    /\ hPc' = [hPc EXCEPT ![s] = "idle"]
    /\ hMain' = IF OnMain(s) THEN Tail(hMain) ELSE hMain
    /\ UNCHANGED <<mainVars, pollVars, chan, dbVars, workVars, sigCount, sigInstalled,
                   histVars>>

\* Lines 55-64: the branch taken at line 54, the log line, the re-arming, the return.
\* A handler that another handler interrupted on the same thread resumes after it.
SigReturn(s) ==
    /\ Running
    /\ hPc[s] # "idle"
    /\ OnMain(s) => Head(hMain) = s
    /\ IF hPc[s] = "then"
          THEN /\ shutdown' = 1
               /\ flagWriters' = flagWriters \cup {"sigcatch"}
               /\ startLines' = startLines + 1
               /\ UNCHANGED progLines
          ELSE /\ progLines' = progLines + 1
               /\ UNCHANGED <<shutdown, flagWriters, startLines>>
    /\ hPc' = [hPc EXCEPT ![s] = "idle"]
    /\ hMain' = IF OnMain(s) THEN Tail(hMain) ELSE hMain
    /\ UNCHANGED <<mainVars, pollVars, chan, dbVars, workVars, sigCount, sigInstalled,
                   histVars>>

(***************************************************************************)
(* main(): teardown                                                        *)
(***************************************************************************)

\* pthread_join(*threads[k]): returns 0 once the thread has returned.  The pthread_t
\* of a thread that was never created holds no thread id: the call is undefined,
\* it returns an error or the process dies.
JoinResults(k) ==
    IF threads[k] = "valid"
       THEN (IF wPc[k] = "exited" THEN {"0"} ELSE {})
       ELSE {"ESRCH", "crash"}

\* JoinThread with the wait missing: the pthread_t is freed whether or not the
\* thread has returned.
JoinThread_NoWait ==
    /\ mainPc = "join"
    /\ MainRuns
    /\ IF HasThread(i)
          THEN /\ joined' = joined \cup {i}
               /\ threads' = [threads EXCEPT ![i] = "NULL"]
               /\ thread_attrs' = [thread_attrs EXCEPT ![i] = "NULL"]
               /\ mainPc' = "disconnect"
               /\ UNCHANGED joinFailed
          ELSE /\ mainPc' = "disconnect"
               /\ UNCHANGED <<threads, thread_attrs, joined, joinFailed>>
    /\ UNCHANGED <<shutdown, i, rc, msgq, unlinked, dbc, thrdata, pollVars, chan, dbVars,
                   workVars, sigVars, sentCount, recvCount, released, disconnected,
                   startFailed, pollFailed, flagWriters>>

\* Lines 300-313: wait for thread i and free its pthread_t and attributes.
JoinThread ==
    /\ mainPc = "join"
    /\ MainRuns
    /\ IF HasThread(i)
          THEN \E r \in JoinResults(i) :
                  IF r = "crash"
                     THEN /\ mainPc' = "crashed"
                          /\ UNCHANGED <<threads, thread_attrs, joined, joinFailed>>
                     ELSE /\ joined' = IF r = "0" THEN joined \cup {i} ELSE joined
                          /\ joinFailed' = IF r = "0" THEN joinFailed
                                                      ELSE joinFailed \cup {i}
                          /\ threads' = [threads EXCEPT ![i] = "NULL"]
                          /\ thread_attrs' = [thread_attrs EXCEPT ![i] = "NULL"]
                          /\ mainPc' = "disconnect"
          ELSE /\ mainPc' = "disconnect"
               /\ UNCHANGED <<threads, thread_attrs, joined, joinFailed>>
    /\ UNCHANGED <<shutdown, i, rc, msgq, unlinked, dbc, thrdata, pollVars, chan, dbVars,
                   workVars, sigVars, sentCount, recvCount, released, disconnected,
                   startFailed, pollFailed, flagWriters>>

\* thrdata && thrdata[k] (line 316).  thrdata has no initialiser: read before the
\* calloc of line 227 its value is indeterminate, the test is false or the
\* process dies on the dereference.
ThrdataTests(k) ==
    IF ThrdataUninit THEN {"false", "crash"}
    ELSE IF thrdata[k] # "NULL" THEN {"true"} ELSE {"false"}

\* DisconnectThread with the loop of line 300 one round short: the last thread is
\* neither joined nor disconnected.
DisconnectThread_ShortLoop ==
    /\ mainPc = "disconnect"
    /\ MainRuns
    /\ \E t \in ThrdataTests(i) :
          CASE t = "crash" ->
                 /\ mainPc' = "crashed"
                 /\ UNCHANGED <<i, thrdata, disconnected>>
            [] t = "true" ->
                 /\ thrdata' = [thrdata EXCEPT ![i] = "NULL"]
                 /\ disconnected' = disconnected \cup {i}
                 /\ i' = i + 1
                 /\ mainPc' = IF i + 1 < max_threads - 1 THEN "join" ELSE "free"
            [] t = "false" ->
                 /\ i' = i + 1
                 /\ mainPc' = IF i + 1 < max_threads - 1 THEN "join" ELSE "free"
                 /\ UNCHANGED <<thrdata, disconnected>>
    /\ UNCHANGED <<shutdown, rc, msgq, unlinked, dbc, threads, thread_attrs, pollVars,
                   chan, dbVars, workVars, sigVars, sentCount, recvCount, released,
                   joined, joinFailed, startFailed, pollFailed, flagWriters>>

\* Lines 315-320: disconnect thread i's database connection and free its context.
DisconnectThread ==
    /\ mainPc = "disconnect"
    /\ MainRuns
    /\ \E t \in ThrdataTests(i) :
          CASE t = "crash" ->
                 /\ mainPc' = "crashed"
                 /\ UNCHANGED <<i, thrdata, disconnected>>
            [] t = "true" ->
                 /\ thrdata' = [thrdata EXCEPT ![i] = "NULL"]
                 /\ disconnected' = disconnected \cup {i}
                 /\ i' = i + 1
                 /\ mainPc' = IF i + 1 < max_threads THEN "join" ELSE "free"
            [] t = "false" ->
                 /\ i' = i + 1
                 /\ mainPc' = IF i + 1 < max_threads THEN "join" ELSE "free"
                 /\ UNCHANGED <<thrdata, disconnected>>
    /\ UNCHANGED <<shutdown, rc, msgq, unlinked, dbc, threads, thread_attrs, pollVars,
                   chan, dbVars, workVars, sigVars, sentCount, recvCount, released,
                   joined, joinFailed, startFailed, pollFailed, flagWriters>>

\* Lines 321-323: free the three arrays.  Freeing the indeterminate thrdata is
\* undefined: nothing happens or the process dies.
FreeArrays ==
    /\ mainPc = "free"
    /\ MainRuns
    /\ \/ /\ ~ThrdataUninit
          /\ thrdata' = NoArray
          /\ mainPc' = "mq_close"
       \/ /\ ThrdataUninit
          /\ \E died \in BOOLEAN : mainPc' = IF died THEN "crashed" ELSE "mq_close"
          /\ UNCHANGED thrdata
    /\ threads' = NoArray
    /\ thread_attrs' = NoArray
    /\ UNCHANGED <<shutdown, i, rc, msgq, unlinked, dbc, pollVars, chan, dbVars, workVars,
                   sigVars, histVars, flagWriters>>

\* Lines 325-330: mq_close(msgq).
CloseMQ ==
    /\ mainPc = "mq_close"
    /\ MainRuns
    /\ msgq' = IF msgq = "open" THEN "closed" ELSE msgq
    /\ mainPc' = "mq_unlink"
    /\ UNCHANGED <<shutdown, i, rc, unlinked, dbc, threads, thread_attrs, thrdata,
                   pollVars, chan, dbVars, workVars, sigVars, histVars, flagWriters>>

\* Lines 331-335: mq_unlink("/rteval_parsequeue").
UnlinkMQ ==
    /\ mainPc = "mq_unlink"
    /\ MainRuns
    /\ unlinked' = TRUE
    /\ mainPc' = "db_disconnect"
    /\ UNCHANGED <<shutdown, i, rc, msgq, dbc, threads, thread_attrs, thrdata,
                   pollVars, chan, dbVars, workVars, sigVars, histVars, flagWriters>>

\* Lines 337-346: disconnect the main connection, free the rest, return rc.
DisconnectMain ==
    /\ mainPc = "db_disconnect"
    /\ MainRuns
    /\ dbc' = "NULL"
    /\ mainPc' = "done"
    /\ UNCHANGED <<shutdown, i, rc, msgq, unlinked, threads, thread_attrs, thrdata,
                   pollVars, chan, dbVars, workVars, sigVars, histVars, flagWriters>>

(***************************************************************************)
(* The specification                                                       *)
(***************************************************************************)

MainNext ==
    \/ ParseXslt \/ OpenMQ \/ ConnectMain \/ AllocArrays \/ PrepareThread
    \/ SetupSignals \/ StartThread \/ CallPoller \/ PollerReturned
    \/ JoinThread \/ DisconnectThread \/ FreeArrays \/ CloseMQ \/ UnlinkMQ
    \/ DisconnectMain

PollerNext ==
    PollLoop \/ PollClaim \/ PollListen \/ PollWait \/ PollSend \/ PollCooldown \/ PollRetry

WorkerNext == \E k \in Threads : WorkerLoop(k) \/ WorkerRecv(k) \/ WorkerProcess(k)

HandlerNext == \E s \in Signals : SigReturn(s)

Next ==
    \/ MainNext
    \/ PollerNext
    \/ WorkerNext
    \/ HandlerNext
    \/ InsertJob
    \/ \E s \in Signals : SigDeliver(s)

Spec == Init /\ [][Next]_vars

\* Every thread that can take a step eventually takes one; signals and inserts
\* come from outside and need not come, and no call of the poller has to fail.
FairSpec ==
    /\ Spec
    /\ WF_vars(MainNext)
    /\ WF_vars(PollerNext /\ pollFailed' = pollFailed)
    /\ \A k \in Threads : WF_vars(WorkerLoop(k) \/ WorkerRecv(k) \/ WorkerProcess(k))
    /\ WF_vars(HandlerNext)

\* The parse threads alone are scheduled fairly; main(), the poller and the signal
\* handlers may stall.
WorkerFairSpec ==
    /\ Spec
    /\ \A k \in Threads : WF_vars(WorkerLoop(k) \/ WorkerRecv(k) \/ WorkerProcess(k))

(***************************************************************************)
(* Properties                                                              *)
(***************************************************************************)

\* The poller is between a claim and the end of the do-while of lines 144-160.
Dispatching == pollPc \in {"send", "cooldown", "retry"}

\* C1: every job the poller claims is enqueued exactly once: never twice, and a job
\* the poller has let go of at line 161 was enqueued.
NoDuplicateDispatch ==
    /\ \A j \in Jobs : sentCount[j] <= 1
    /\ \A j \in released : sentCount[j] = 1

\* C2: after a send that returned EAGAIN the poller keeps the job it holds through
\* the cooldown and goes back to mq_send with it; it does not drop it.
NoLostJobOnFull ==
    [][(pollPc \in {"cooldown", "retry"})
         => (pollPc' \in {"cooldown", "retry", "send"} /\ job' = job)]_vars

\* C3: once the flag is set while the poller is retrying a send, the poller
\* returns.
RetryEndsOnShutdown == (Dispatching /\ shutdown # 0) ~> (pollPc = "returned")

\* C4: once the flag is set after every parse thread was started, main() reaches
\* the end of the teardown and returns.
NoDeadlockOnShutdown ==
    (mainPc = "polling" /\ startFailed = {} /\ shutdown # 0) ~> (mainPc = "done")

\* C5: no job is received twice, and in a run where every parse thread was started
\* and no operation of the poller failed, when the queue is removed every job that
\* was enqueued has been received by a parse thread: none is left in the queue.
EnqueuedJobsReceived ==
    /\ \A j \in Jobs : recvCount[j] <= 1
    /\ (unlinked /\ startFailed = {} /\ pollFailed = "none")
          => \A j \in Jobs : sentCount[j] >= 1 => recvCount[j] = 1

\* C6: a thread whose database connection was disconnected and whose context was
\* freed is not running, whether its join returned 0 or an error.
CleanJoin == \A k \in disconnected : ~Alive(k)

\* C6 witness: the connection of a thread that ran and was joined, and that of a
\* thread whose join failed, have both been released.
CleanJoinWitness ==
    /\ \E k \in disconnected : k \in joined /\ wPc[k] = "exited"
    /\ \E k \in disconnected : k \in joinFailed

\* C7: when the queue is closed or removed the poller is not running and no parse
\* thread is.
ChannelOutlivesUsers ==
    (msgq = "closed" \/ unlinked)
        => /\ pollPc \in {"notstarted", "returned"}
           /\ \A k \in Threads : ~Alive(k)

\* C7 witness: the queue was opened, used, closed and removed after the poller
\* returned and every parse thread had run and returned.
ChannelOutlivesUsersWitness ==
    /\ msgq = "closed"
    /\ unlinked
    /\ pollPc = "returned"
    /\ \A k \in Threads : wPc[k] = "exited"
    /\ \E j \in Jobs : recvCount[j] = 1

\* C8: whatever the signals, at most one "Starting shutting down" line is written,
\* and every handler that has returned wrote one of the two lines.
IdempotentShutdown ==
    /\ startLines <= 1
    /\ (\A s \in Signals : hPc[s] = "idle") => startLines + progLines = sigCount

\* C9: the poller returns 1 exactly when the claim or the wait failed, 2 exactly
\* when a send failed with an error other than EAGAIN, and 0 otherwise.
PollerResultCode ==
    pollPc = "returned"
        => prc = (CASE pollFailed \in {"claim", "wait"} -> 1
                    [] pollFailed = "send" -> 2
                    [] OTHER -> 0)

\* C10: when pthread_create fails for a thread the poller is not run, and main()
\* returns 3.
StartFailureExits3 ==
    startFailed # {}
        => /\ pollPc = "notstarted"
           /\ mainPc = "done" => rc = 3

\* C11: a job inserted with its notification is not missed: whenever the poller is
\* blocked in the wait with an eligible row in the table and the flag clear, the
\* notification of that row is pending, so the wait ends without a later one.
NotificationWakesPoller ==
    (pollPc = "wait" /\ avail > 0 /\ shutdown = 0) => notif

\* C12: the queue never holds more than the mq_maxmsg messages it was opened with,
\* and a send made while it holds exactly that many leaves the queue as it was and
\* returns at once: the poller goes on to the EAGAIN branch or to its exit.
CapacityRespected ==
    /\ [](Len(chan) <= msg_max)
    /\ [][(pollPc = "send" /\ Len(chan) = msg_max /\ pollPc' # "send")
            => (chan' = chan /\ sentCount' = sentCount
                /\ pollPc' \in {"cooldown", "returned"})]_vars

\* A send found the queue full: the poller is in the EAGAIN branch with its job.
CapacityRespectedWitness ==
    /\ pollPc = "cooldown"
    /\ Len(chan) = msg_max
    /\ job \in Jobs
    /\ sentCount[job] = 0

\* C13: a parse thread leaves its loop only when the flag is set, a failed
\* processing routine or not; and once some job's processing has failed, every
\* job that is or gets enqueued is still received and processed to its end by the
\* running parse threads, unless shutdown is requested first.
PerJobIsolation ==
    /\ [](\A k \in Threads : wPc[k] = "exited" => shutdown # 0)
    /\ (/\ failedJobs # {}
        /\ shutdown = 0
        /\ \E k \in Threads : Alive(k))
       ~> (\/ \A j \in Jobs :
                sentCount[j] >= 1
                    => recvCount[j] >= 1 /\ \A k \in Threads : wJob[k] # j
           \/ shutdown # 0)

\* The processing of one job failed, another job was received and processed after
\* it by the same parse thread, and no shutdown was requested.
PerJobIsolationWitness ==
    /\ shutdown = 0
    /\ failedJobs = {1}
    /\ recvCount[2] = 1
    /\ \A k \in Threads : wJob[k] = 0
    /\ \E k \in Threads : Alive(k) /\ startFailed = Threads \ {k}

\* C14: the teardown calls pthread_join only for parse threads that were created:
\* when no pthread_create has failed, every thread a join was made on (whatever
\* the join returned) had been started.
JoinsOnlyStartedThreads ==
    startFailed = {} => \A k \in joined \cup joinFailed : wPc[k] # "unstarted"

\* C15: the flag is set before the teardown begins: when main() is at the exit
\* label after the arrays of lines 224-226 were allocated (a failure in the
\* preparation or start of the parse threads, or the return of the poller), the
\* shutdown flag is set.
FatalSetsFlag ==
    (mainPc = "join" /\ i = 0 /\ ~ThrdataUninit) => shutdown # 0

\* C16, as stated: every parse thread that was started has been joined before the
\* connection of any thread is disconnected (in the runs where every
\* pthread_create succeeded).
TeardownPhasesInOrder ==
    (startFailed = {} /\ disconnected # {}) => \A k \in Threads : threads[k] # "valid"

\* C16, amended: the teardown loop handles the threads one after the other, each
\* thread's pthread_t is joined and freed before that thread's connection is
\* disconnected; when the loop is over and the queue is being closed and removed,
\* every thread that was started has been joined and its connection disconnected;
\* and main()'s own connection is disconnected after the queue was removed.
TeardownOrderPerThread ==
    /\ \A k \in disconnected : threads[k] # "valid" /\ wPc[k] \in {"unstarted", "exited"}
    /\ mainPc \in {"mq_unlink", "db_disconnect", "done"}
          => \A k \in Threads : wPc[k] # "unstarted"
                                   => k \in joined /\ k \in disconnected
    /\ mainPc = "done" => unlinked /\ msgq # "open"

\* The whole teardown ran after a normal run: every thread was started, joined and
\* disconnected, the queue closed and removed, main()'s connection disconnected.
TeardownOrderPerThreadWitness ==
    /\ mainPc = "done"
    /\ joined = Threads
    /\ disconnected = Threads
    /\ msgq = "closed"
    /\ unlinked
    /\ dbc = "NULL"

\* C17, as stated: sigcatch() is the only code that writes the shutdown flag.
SingleWriterFlag == flagWriters \subseteq {"sigcatch"}

\* C17, amended: the flag is written by sigcatch(), by the poller when it stops on
\* a failed claim, wait or send, and by main() when the database connection of a
\* parse thread cannot be made, and by nothing else; every write stores 1, so the
\* flag is set exactly when somebody has written it.
FlagWrittenOnShutdownOnly ==
    /\ flagWriters \subseteq {"sigcatch", "poller", "main"}
    /\ shutdown \in {0, 1}
    /\ (shutdown # 0) <=> (flagWriters # {})
    /\ "poller" \in flagWriters => pollPc = "returned" /\ prc \in {1, 2}
    /\ "main" \in flagWriters => pollPc = "notstarted" /\ rc = 2

\* The flag was written by the handler first and by the stopping poller after it,
\* with parse threads running that did not write it.
FlagWrittenOnShutdownOnlyWitness ==
    /\ flagWriters = {"sigcatch", "poller"}
    /\ shutdown = 1
    /\ pollFailed # "none"
    /\ \A k \in Threads : wPc[k] = "exited"

\* C18: jobs go into the queue in the order of their claims (submids follow the
\* order of the claims): when a job has been enqueued, every job claimed before it
\* has been enqueued, and the queue holds its jobs oldest claim first.
DispatchInClaimOrder ==
    /\ \A a, b \in Jobs : (a < b /\ sentCount[b] >= 1) => sentCount[a] >= 1
    /\ \A p, q \in DOMAIN chan : p < q => chan[p] < chan[q]

\* C19: the jobs claimed and not yet received by a parse thread are those in the
\* queue and the one the poller holds: at most mq_maxmsg + 1.
BackpressureBound ==
    Cardinality({j \in Jobs : j <= nclaimed /\ recvCount[j] = 0}) <= msg_max + 1

\* C20: the exit path releases only what main() acquired: mq_close has been called
\* and the named queue has been removed only when this process had opened the
\* queue.
TeardownOnlyAcquired ==
    (mainPc \in {"mq_unlink", "db_disconnect", "done"} \/ unlinked) => msgq = "closed"

====
